---- MODULE Spec2Model ----
(***************************************************************************)
(* CropAdvisor: the analysis request correlation and persistence pipeline. *)
(*                                                                         *)
(*   server/index.js                   POST /api/analyze,                  *)
(*                                     GET /api/analyses/:farmerAddress    *)
(*   src/components/PaymentHandler.tsx handlePayment                       *)
(*                                                                         *)
(* A JavaScript string is a sequence of symbols.  A symbol is one          *)
(* character, or one JSON member ("key":value) written as it appears in    *)
(* the text.  Numbers are carried in thousandths (0.75 is 750).            *)
(***************************************************************************)
EXTENDS Integers, Sequences, FiniteSets, TLC

(***************************************************************************)
(* Values                                                                  *)
(***************************************************************************)
Str(s) == [t |-> "str", s |-> s, n |-> 0]
Num(n) == [t |-> "num", s |-> <<>>, n |-> n]
\* JavaScript undefined (a property the object does not have) and SQL NULL
Undef == [t |-> "undef", s |-> <<>>, n |-> 0]
Null == [t |-> "null", s |-> <<>>, n |-> 0]

Min(a, b) == IF a < b THEN a ELSE b
SetMax(S) == CHOOSE x \in S : \A y \in S : y <= x
SetMin(S) == CHOOSE x \in S : \A y \in S : x <= y

\* n copies of the prose character
Pad(n) == [i \in 1..n |-> "w"]

LOW == <<"l", "o", "w">>
MEDIUM == <<"m", "e", "d", "i", "u", "m">>
HIGH == <<"h", "i", "g", "h">>
CRITICAL == <<"c", "r", "i", "t", "i", "c", "a", "l">>

(***************************************************************************)
(* The JSON members the AI text may carry                                  *)
(***************************************************************************)
mDiag == "\"diagnosis\":\"leaf rust\""
mDiagNum == "\"diagnosis\":7"
mAdvice == "\"advice\":\"apply fungicide\""
mSevHigh == "\"severity\":\"high\""
mSevLow == "\"severity\":\"low\""
mSevCrit == "\"severity\":\"critical\""
mSevLong == "\"severity\":\"wwwwwwwwwwwwwwwwwwwww\""
mConf == "\"confidence\":0.9"
mConfRound == "\"confidence\":0.955"
mConfHigh == "\"confidence\":1.5"
mConfOver == "\"confidence\":12"
mConfStr == "\"confidence\":\"abc\""
mConfNumStr == "\"confidence\":\"0.9\""

Members ==
    {mDiag, mDiagNum, mAdvice, mSevHigh, mSevLow, mSevCrit, mSevLong,
     mConf, mConfRound, mConfHigh, mConfOver, mConfStr, mConfNumStr}

MemberKey(m) ==
    CASE m \in {mDiag, mDiagNum} -> "diagnosis"
      [] m = mAdvice -> "advice"
      [] m \in {mSevHigh, mSevLow, mSevCrit, mSevLong} -> "severity"
      [] OTHER -> "confidence"

MemberValue(m) ==
    CASE m = mDiag -> Str(<<"leaf rust">>)
      [] m = mDiagNum -> Num(7000)
      [] m = mAdvice -> Str(<<"apply fungicide">>)
      [] m = mSevHigh -> Str(HIGH)
      [] m = mSevLow -> Str(LOW)
      [] m = mSevCrit -> Str(CRITICAL)
      [] m = mSevLong -> Str(Pad(21))
      [] m = mConf -> Num(900)
      [] m = mConfRound -> Num(955)
      [] m = mConfHigh -> Num(1500)
      [] m = mConfOver -> Num(12000)
      [] m = mConfStr -> Str(<<"a", "b", "c">>)
      [] m = mConfNumStr -> Str(<<"0", ".", "9">>)

(***************************************************************************)
(* ResultNormalizer: server/index.js lines 125-143                         *)
(***************************************************************************)
FallbackLen == 200
FallbackConfidence == 750
Ellipsis == <<".", ".", ".">>
ReferralMessage ==
    <<"Please consult with a local agricultural expert for detailed treatment recommendations.">>

\* text.match(/\{[\s\S]*\}/): the leftmost "{" and, the star being greedy,
\* the last "}" after it; <<>> stands for null (no match)
JsonMatch(text) ==
    LET opens == {i \in 1..Len(text) : text[i] = "{"}
    IN  IF opens = {} THEN <<>>
        ELSE LET first == SetMin(opens)
                 closes == {j \in first + 1..Len(text) : text[j] = "}"}
             IN  IF closes = {} THEN <<>>
                 ELSE SubSeq(text, first, SetMax(closes))

\* JSON.parse of a text that starts with "{": an object is "{", members
\* separated by ",", "}"; anything else is a SyntaxError
JsonSyntaxOk(m) ==
    /\ Len(m) >= 2
    /\ m[1] = "{"
    /\ m[Len(m)] = "}"
    /\ \/ Len(m) = 2
       \/ /\ Len(m) % 2 = 1
          /\ \A i \in 2..Len(m) - 1 :
                IF i % 2 = 0 THEN m[i] \in Members ELSE m[i] = ","

\* the property of the parsed object: the last member with that key wins
Property(m, key) ==
    LET at == {i \in 2..Len(m) - 1 : m[i] \in Members /\ MemberKey(m[i]) = key}
    IN  IF at = {} THEN Undef ELSE MemberValue(m[SetMax(at)])

JsonParse(m) ==
    [diagnosis |-> Property(m, "diagnosis"),
     advice |-> Property(m, "advice"),
     severity |-> Property(m, "severity"),
     confidence |-> Property(m, "confidence")]

\* a substring that does not cut: the whole text
SubstringAll(text) == text

\* text.substring(0, 200)
Substring200(text) == SubSeq(text, 1, Min(Len(text), FallbackLen))

FallbackResult(text) ==
    [diagnosis |-> Str(Substring200(text) \o Ellipsis),
     advice |-> Str(ReferralMessage),
     severity |-> Str(MEDIUM),
     confidence |-> Num(FallbackConfidence)]

\* the try/catch of lines 127-143
ParseAIResponse(text) ==
    LET jsonMatch == JsonMatch(text)
    IN  IF jsonMatch # <<>> /\ JsonSyntaxOk(jsonMatch)
        THEN JsonParse(jsonMatch)
        ELSE FallbackResult(text)

(***************************************************************************)
(* PostgreSQL: the analyses table (lines 50-63) and the conversion of the  *)
(* UPDATE's parameters to its columns' types                               *)
(***************************************************************************)
VarcharMax == 20

Digits == <<"0", "1", "2", "3", "4", "5", "6", "7", "8", "9">>
DigitText(d) == Digits[d + 1]
IsDigit(c) == \E d \in 0..9 : Digits[d + 1] = c
DigitValue(c) == CHOOSE d \in 0..9 : Digits[d + 1] = c

RECURSIVE NatText(_)
NatText(n) == IF n < 10 THEN <<DigitText(n)>> ELSE NatText(n \div 10) \o <<DigitText(n % 10)>>

\* the text of a non-negative number given in thousandths: 7000 is "7", 955 is "0.955"
NumberText(n) ==
    LET f == n % 1000
        frac == IF f % 100 = 0 THEN <<DigitText(f \div 100)>>
                ELSE IF f % 10 = 0 THEN <<DigitText(f \div 100), DigitText((f \div 10) % 10)>>
                ELSE <<DigitText(f \div 100), DigitText((f \div 10) % 10), DigitText(f % 10)>>
    IN  IF f = 0 THEN NatText(n \div 1000) ELSE NatText(n \div 1000) \o <<".">> \o frac

RECURSIVE NatValue(_)
NatValue(s) == IF s = <<>> THEN 0 ELSE 10 * NatValue(SubSeq(s, 1, Len(s) - 1)) + DigitValue(s[Len(s)])

\* numeric input syntax: digits, optionally "." and one to three digits
IsNumericText(s) ==
    LET dots == {i \in 1..Len(s) : s[i] = "."}
    IN  /\ s # <<>>
        /\ \A i \in 1..Len(s) : IsDigit(s[i]) \/ s[i] = "."
        /\ Cardinality(dots) <= 1
        /\ \A i \in dots : i > 1 /\ i < Len(s) /\ Len(s) - i <= 3

NumericValue(s) ==
    LET dots == {i \in 1..Len(s) : s[i] = "."}
    IN  IF dots = {} THEN 1000 * NatValue(s)
        ELSE LET d == SetMin(dots)
                 fr == SubSeq(s, d + 1, Len(s))
                 scale == IF Len(fr) = 1 THEN 100 ELSE IF Len(fr) = 2 THEN 10 ELSE 1
             IN  1000 * NatValue(SubSeq(s, 1, d - 1)) + scale * NatValue(fr)

\* a parameter as node-postgres sends it: undefined and null are NULL, a
\* number is its text, a string is itself
PgParam(v) ==
    CASE v.t \in {"undef", "null"} -> Null
      [] v.t = "num" -> Str(NumberText(v.n))
      [] OTHER -> v

\* TEXT
ToText(v) == [ok |-> TRUE, v |-> PgParam(v)]

\* VARCHAR(20): a longer value is an error
ToVarchar(v) ==
    LET p == PgParam(v)
    IN  IF p.t = "str" /\ Len(p.s) > VarcharMax
        THEN [ok |-> FALSE, v |-> Null]
        ELSE [ok |-> TRUE, v |-> p]

\* DECIMAL(3,2): rounded to two decimals, half away from zero; an absolute
\* value of 10 or more after rounding is an error, and so is a text that is
\* no number
ToDecimal(v) ==
    LET p == PgParam(v)
    IN  IF p.t = "null" THEN [ok |-> TRUE, v |-> Null]
        ELSE IF ~IsNumericText(p.s) THEN [ok |-> FALSE, v |-> Null]
        ELSE LET hundredths == (NumericValue(p.s) + 5) \div 10
             IN  IF hundredths >= 1000 THEN [ok |-> FALSE, v |-> Null]
                 ELSE [ok |-> TRUE, v |-> Num(10 * hundredths)]

\* whether the UPDATE's parameters are text the server can read at all
\* (checked when the statement is bound, whatever rows it matches)
BindOk(result) ==
    LET p == PgParam(result.confidence)
    IN  p.t = "null" \/ IsNumericText(p.s)

\* whether every SET expression can be evaluated for a matched row
AssignOk(result) ==
    /\ ToVarchar(result.severity).ok
    /\ ToDecimal(result.confidence).ok

\* the row after SET diagnosis = $1, advice = $2, confidence = $3,
\* severity = $4, completed_at = NOW()
UpdatedRow(row, result, now) ==
    [row EXCEPT !.diagnosis = ToText(result.diagnosis).v,
                !.advice = ToText(result.advice).v,
                !.confidence = ToDecimal(result.confidence).v,
                !.severity = ToVarchar(result.severity).v,
                !.completed_at = now]

(***************************************************************************)
(* Bounds                                                                  *)
(***************************************************************************)
\* POST /api/analyze requests in flight or answered
NReq == 2
\* invocations of handlePayment
MaxPay == 2

Reqs == 1..NReq

(***************************************************************************)
(* Inputs                                                                  *)
(***************************************************************************)
\* String(analysisId) of the identifiers the contract assigns: 1, 2, ...
IdString(n) == NatText(n)
IdStrings == {IdString(n) : n \in 1..MaxPay}
\* req.body.analysisId undefined or empty
NoId == <<>>

Images == {"imageX", "imageY"}
Accounts == {"0xAb5801a7D398351b8bE11C439e05C5B3259aeC9B", "0x00000000219ab540356cBB839Cbe05303d7705Fa", "not-an-address"}

\* what the inference service may answer
TextValid == <<"{", mDiag, ",", mAdvice, ",", mSevHigh, ",", mConf, "}">>
TextProse == Pad(3)
TextEmptyObject == <<"{", "}">>
TextOutOfRange == <<"{", mDiag, ",", mAdvice, ",", mSevCrit, ",", mConfHigh, "}">>
TextOverflow == <<"{", mDiag, ",", mAdvice, ",", mSevHigh, ",", mConfOver, "}">>
ServerTexts ==
    {TextValid, TextProse, TextEmptyObject, TextOverflow}

(***************************************************************************)
(* State                                                                   *)
(***************************************************************************)
VARIABLES
    store,      \* the analyses table: analysis_id -> row
    clock,      \* the database's NOW()
    req,        \* the POST /api/analyze requests
    tmp,        \* tmp[r]: the upload of request r is on disk under uploads/
    pay,        \* the PaymentHandler component
    ledger,     \* the contract: the next analysisId it assigns
    delivered,  \* the calls of onPaymentSuccess
    history,    \* the last response of GET /api/analyses/:farmerAddress
    rawText,    \* the normalizer alone: its input
    normalized  \* the normalizer alone: its output

vars == <<store, clock, req, tmp, pay, ledger, delivered, history, rawText, normalized>>
serverVars == <<store, clock, req, tmp, history>>
payVars == <<pay, ledger, delivered>>
normVars == <<rawText, normalized>>

NoResult == [diagnosis |-> Undef, advice |-> Undef, severity |-> Undef, confidence |-> Undef]

\* status 0: no response sent yet.  rows: the UPDATE's row count, -1 before it
\* ran.  cleanupFailed: the catch block logged 'File cleanup failed'.
\* logged: the call whose error the catch block logged as 'Analysis failed'.
NewReq ==
    [pc |-> "idle", analysisId |-> NoId, hasFile |-> FALSE,
     result |-> NoResult, rows |-> -1, status |-> 0, error |-> "",
     cleanupFailed |-> FALSE, logged |-> ""]

\* error: the component's error state (null: NoError).  thrown: the message of
\* the error the catch block of the last invocation received.  calls: the
\* invocations of handlePayment so far.  priceReads, txSent: the calls of
\* analysisPrice().call() and of requestAnalysis(...).send() the current (or
\* last) invocation issued.
NoError == <<"null">>
NoThrow == <<"none">>
IdlePay ==
    [pc |-> "idle", isProcessing |-> FALSE, error |-> NoError, transactionHash |-> <<>>,
     account |-> "", image |-> "", imageHash |-> "", thrown |-> NoThrow, calls |-> 0,
     priceReads |-> 0, txSent |-> 0]

\* status 0: no response yet; the body of a 200 is the rows
NoHistory == [status |-> 0, rows |-> <<>>]

Init ==
    /\ store = <<>>
    /\ clock = 1
    /\ req = [r \in Reqs |-> NewReq]
    /\ tmp = [r \in Reqs |-> FALSE]
    /\ pay = IdlePay
    /\ ledger = 1
    /\ delivered = {}
    /\ history = NoHistory
    /\ rawText = <<>>
    /\ normalized = [done |-> FALSE, result |-> NoResult]

(***************************************************************************)
(* POST /api/analyze: server/index.js lines 74-180                         *)
(***************************************************************************)
\* res.status(...).json(...) ends the request: its locals are gone, what
\* stays is the response (the result is the body of a 200 only)
Respond(q, status, error) ==
    [q EXCEPT !.pc = "done", !.status = status, !.error = error,
              !.analysisId = NoId,
              !.result = IF status = 200 THEN @ ELSE NoResult]

\* upload.single('image'), lines 21-33 and 74 (requests are numbered in the
\* order they arrive): multer stores an image under
\* uploads/ and sets req.file; a file that is no image is refused with an
\* error and the handler does not run; a request may carry no file at all
Upload(r) ==
    /\ req[r].pc = "idle"
    /\ \A q \in Reqs : q < r => req[q].pc # "idle"
    /\ \E id \in IdStrings \cup {NoId}, file \in {"image", "none", "other"} :
          /\ req' = [req EXCEPT ![r] =
                IF file = "other"
                THEN Respond(@, 500, "Only image files are allowed")
                ELSE [@ EXCEPT !.pc = "handler", !.analysisId = id,
                               !.hasFile = (file = "image")]]
          /\ tmp' = [tmp EXCEPT ![r] = (file = "image")]
    /\ UNCHANGED <<store, clock, history, payVars, normVars>>

\* the catch block, lines 164-179: unlinkSync of req.file.path in its own
\* try (fs may refuse, the error is logged and dropped), then the 500
CatchTmpKeep(r, unlinked) == tmp
CatchTmp(r, unlinked) == IF req[r].hasFile /\ unlinked THEN [tmp EXCEPT ![r] = FALSE] ELSE tmp
CatchReq(q, unlinked, thrownBy) ==
    [Respond(q, 500, "Analysis failed. Please try again later.")
        EXCEPT !.cleanupFailed = q.hasFile /\ ~unlinked, !.logged = thrownBy]

\* lines 75-89, up to the first await: the two validations, readFileSync
HandlerStart(r) ==
    /\ req[r].pc = "handler"
    /\ UNCHANGED <<store, clock, history, payVars, normVars>>
    /\ \/ /\ ~req[r].hasFile
          /\ req' = [req EXCEPT ![r] = Respond(@, 400, "No image file provided")]
          /\ UNCHANGED tmp
       \/ /\ req[r].hasFile
          /\ req[r].analysisId = NoId
          /\ req' = [req EXCEPT ![r] = Respond(@, 400, "Analysis ID is required")]
          /\ UNCHANGED tmp
       \/ /\ req[r].hasFile
          /\ req[r].analysisId # NoId
          /\ req' = [req EXCEPT ![r].pc = "inference"]
          /\ UNCHANGED tmp
       \/ \* readFileSync throws
          /\ req[r].hasFile
          /\ req[r].analysisId # NoId
          /\ \E unlinked \in BOOLEAN :
                /\ tmp' = CatchTmp(r, unlinked)
                /\ req' = [req EXCEPT ![r] = CatchReq(@, unlinked, "readFileSync")]

\* lines 121-143: generateContent and response.text() resolve with a text,
\* which is parsed at once
InferenceDone(r) ==
    /\ req[r].pc = "inference"
    /\ \E text \in ServerTexts :
          req' = [req EXCEPT ![r].pc = "query",
                             ![r].result = ParseAIResponse(text)]
    /\ UNCHANGED <<store, clock, tmp, history, payVars, normVars>>

\* lines 121-123 reject: the catch block
InferenceFail(r) ==
    /\ req[r].pc = "inference"
    /\ \E unlinked \in BOOLEAN :
          /\ tmp' = CatchTmp(r, unlinked)
          /\ req' = [req EXCEPT ![r] = CatchReq(@, unlinked, "generateContent")]
    /\ UNCHANGED <<store, clock, history, payVars, normVars>>

\* lines 146-162: the UPDATE runs in the database, then unlinkSync and the
\* response; every throw goes to the catch block
Query(r) ==
    LET q == req[r]
        id == q.analysisId
        matched == id \in DOMAIN store
    IN
    /\ q.pc = "query"
    /\ UNCHANGED <<history, payVars, normVars>>
    /\ \/ \* the statement is applied
          /\ BindOk(q.result)
          /\ matched => AssignOk(q.result)
          /\ store' = IF matched
                      THEN [store EXCEPT ![id] = UpdatedRow(@, q.result, clock)]
                      ELSE store
          /\ clock' = IF matched THEN clock + 1 ELSE clock
          /\ \/ \* unlinkSync, line 160
                /\ tmp' = [tmp EXCEPT ![r] = FALSE]
                /\ req' = [req EXCEPT ![r] =
                      [Respond(@, 200, "") EXCEPT !.rows = IF matched THEN 1 ELSE 0]]
             \/ \* unlinkSync throws after the UPDATE: the catch block
                \E unlinked \in BOOLEAN :
                   /\ tmp' = CatchTmp(r, unlinked)
                   /\ req' = [req EXCEPT ![r] =
                         [CatchReq(@, unlinked, "unlinkSync") EXCEPT !.rows = IF matched THEN 1 ELSE 0]]
       \/ \* pool.query rejects: the connection fails, or the database
          \* refuses a parameter (always when ~BindOk) or an assignment
          \* (always when a row is matched and ~AssignOk)
          /\ \E unlinked \in BOOLEAN :
                /\ tmp' = CatchTmp(r, unlinked)
                /\ req' = [req EXCEPT ![r] = CatchReq(@, unlinked, "pool.query")]
          /\ UNCHANGED <<store, clock>>

(***************************************************************************)
(* AnalysisStore.createPending.  No statement of the repository inserts    *)
(* into analyses: the record is created when onPaymentSuccess receives the *)
(* identifier, as the design states (Orchestrator, AwaitingPayment ->      *)
(* Pending); an identifier that exists is refused (DuplicateId).           *)
(***************************************************************************)
PendingRow(owner, imageHash, now) ==
    [farmer_address |-> owner, image_hash |-> imageHash,
     diagnosis |-> Null, advice |-> Null, confidence |-> Null, severity |-> Null,
     created_at |-> now, completed_at |-> 0]

CreatePending(st, id, owner, imageHash, now) ==
    IF id \in DOMAIN st THEN st
    ELSE [i \in DOMAIN st \cup {id} |->
            IF i = id THEN PendingRow(owner, imageHash, now) ELSE st[i]]

(***************************************************************************)
(* GET /api/analyses/:farmerAddress: server/index.js lines 183-197         *)
(***************************************************************************)
RowOf(id) ==
    [analysis_id |-> id, farmer_address |-> store[id].farmer_address,
     image_hash |-> store[id].image_hash, diagnosis |-> store[id].diagnosis,
     advice |-> store[id].advice, confidence |-> store[id].confidence,
     severity |-> store[id].severity, created_at |-> store[id].created_at,
     completed_at |-> store[id].completed_at]

\* ORDER BY created_at DESC
RECURSIVE OrderDesc(_)
OrderDesc(ids) ==
    IF ids = {} THEN <<>>
    ELSE LET newest == CHOOSE i \in ids :
                          \A j \in ids : store[j].created_at <= store[i].created_at
         IN  <<RowOf(newest)>> \o OrderDesc(ids \ {newest})

\* SELECT * FROM analyses WHERE farmer_address = $1 ORDER BY created_at DESC
ListByOwner(owner) ==
    OrderDesc({i \in DOMAIN store : store[i].farmer_address = owner})

GetAnalyses ==
    /\ \E owner \in Accounts :
          \/ history' = [status |-> 200, rows |-> ListByOwner(owner)]
          \/ \* pool.query rejects
             history' = [status |-> 500, rows |-> <<>>]
    /\ UNCHANGED <<store, clock, req, tmp, payVars, normVars>>

(***************************************************************************)
(* PaymentHandler.handlePayment: PaymentHandler.tsx lines 24-107           *)
(***************************************************************************)
\* web3.utils.isAddress
IsAddress(account) ==
    account \in {"0xAb5801a7D398351b8bE11C439e05C5B3259aeC9B",
                 "0x00000000219ab540356cBB839Cbe05303d7705Fa"}

\* generateImageHash: '0x' and the SHA-256 digest of the file's bytes in hex
generateImageHash(file) ==
    CASE file = "imageX" -> "0x8d5f0e2c51e8a3b1c0a4f0e6d7c29b1f3a6e4d5c7b8a9f0e1d2c3b4a59687706"
      [] file = "imageY" -> "0x1b4f0e9851971998e732078544c96b36c3d01cedf7caa332359d6f1d83567014"

\* the messages of what the wallet, the provider and the contract call throw
InsufficientFunds == <<"Returned error:", "insufficient funds", "for gas * price + value">>
UserDenied == <<"MetaMask Tx Signature:", "User denied", "transaction signature.">>
TransportFailure == <<"Invalid JSON RPC response">>
EmptyMessage == <<>>
SendFailures == {InsufficientFunds, UserDenied, TransportFailure, EmptyMessage}
InvalidAddress == <<"Invalid Ethereum address">>
EventNotFound == <<"Could not retrieve analysis ID from transaction">>

\* message.includes(part)
Includes(message, part) ==
    \E i \in 1..Len(message) - Len(part) + 1 :
        SubSeq(message, i, i + Len(part) - 1) = part

\* lines 91-101 without the branch that passes err.message on
ErrorMessageGeneric(message) ==
    IF Includes(message, <<"insufficient funds">>)
    THEN <<"Insufficient ETH balance for transaction">>
    ELSE IF Includes(message, <<"User denied">>)
    THEN <<"Transaction was cancelled by user">>
    ELSE IF Includes(message, <<"Invalid Ethereum address">>)
    THEN <<"Please connect a valid Ethereum wallet">>
    ELSE <<"Payment failed. Please try again.">>

\* lines 91-101
ErrorMessage(message) ==
    IF Includes(message, <<"insufficient funds">>)
    THEN <<"Insufficient ETH balance for transaction">>
    ELSE IF Includes(message, <<"User denied">>)
    THEN <<"Transaction was cancelled by user">>
    ELSE IF Includes(message, <<"Invalid Ethereum address">>)
    THEN <<"Please connect a valid Ethereum wallet">>
    ELSE IF message # <<>> THEN message
    ELSE <<"Payment failed. Please try again.">>

\* catch and finally, lines 87-106
PayCatch(p, message) ==
    [p EXCEPT !.pc = "idle", !.error = ErrorMessage(message), !.isProcessing = FALSE,
              !.thrown = message,
              !.account = "", !.image = "", !.imageHash = ""]

TxHash(n) == <<"0xtx">> \o NatText(n)

\* the button without the check of the address: every invocation goes on to
\* the hash
PayClickUnchecked ==
    /\ pay.pc = "idle"
    /\ ~pay.isProcessing
    /\ pay.calls < MaxPay
    /\ \E account \in Accounts, image \in Images :
          pay' = [pay EXCEPT !.pc = "hash", !.isProcessing = TRUE, !.error = NoError,
                             !.transactionHash = <<>>, !.account = account,
                             !.image = image, !.imageHash = "",
                             !.thrown = NoThrow, !.calls = @ + 1,
                             !.priceReads = 0, !.txSent = 0]
    /\ UNCHANGED <<ledger, delivered, serverVars, normVars>>

\* the button (disabled while processing), lines 32-45: the state is reset
\* and the inputs are validated
PayClick ==
    /\ pay.pc = "idle"
    /\ ~pay.isProcessing
    /\ pay.calls < MaxPay
    /\ \E account \in Accounts, image \in Images :
          LET p == [pay EXCEPT !.isProcessing = TRUE, !.error = NoError,
                               !.transactionHash = <<>>, !.account = account,
                               !.image = image, !.imageHash = "",
                               !.thrown = NoThrow, !.calls = @ + 1,
                               !.priceReads = 0, !.txSent = 0]
          IN  pay' = IF IsAddress(account)
                     THEN [p EXCEPT !.pc = "hash"]
                     ELSE PayCatch(p, InvalidAddress)
    /\ UNCHANGED <<ledger, delivered, serverVars, normVars>>

\* line 48
PayHash ==
    /\ pay.pc = "hash"
    /\ pay' = [pay EXCEPT !.pc = "price", !.imageHash = generateImageHash(pay.image)]
    /\ UNCHANGED <<ledger, delivered, serverVars, normVars>>

\* line 54: analysisPrice().call() resolves or rejects
PayPrice ==
    /\ pay.pc = "price"
    /\ LET p == [pay EXCEPT !.priceReads = @ + 1]
       IN  \/ pay' = [p EXCEPT !.pc = "send"]
           \/ pay' = PayCatch(p, TransportFailure)
    /\ UNCHANGED <<ledger, delivered, serverVars, normVars>>

\* lines 58-85: requestAnalysis(imageHash).send(...) and the event
PaySend ==
    /\ pay.pc = "send"
    /\ UNCHANGED <<req, tmp, history, normVars>>
    /\ \/ \* the transaction is mined and carries PaymentReceived
          LET id == IdString(ledger)
          IN  /\ pay' = [pay EXCEPT !.pc = "idle", !.isProcessing = FALSE,
                                    !.transactionHash = TxHash(ledger),
                                    !.txSent = @ + 1,
                                    !.account = "", !.image = "", !.imageHash = ""]
              /\ ledger' = ledger + 1
              /\ delivered' = delivered \cup
                    {[id |-> id, owner |-> pay.account, image |-> pay.image]}
              /\ store' = CreatePending(store, id, pay.account, pay.imageHash, clock)
              /\ clock' = clock + 1
       \/ \* the transaction is mined, the event is not among its events
          /\ pay' = [PayCatch(pay, EventNotFound) EXCEPT !.transactionHash = TxHash(ledger),
                                                         !.txSent = @ + 1]
          /\ ledger' = ledger + 1
          /\ UNCHANGED <<delivered, store, clock>>
       \/ \* send rejects
          /\ \E message \in SendFailures :
                pay' = [PayCatch(pay, message) EXCEPT !.txSent = @ + 1]
          /\ UNCHANGED <<ledger, delivered, store, clock>>

(***************************************************************************)
(* The system                                                              *)
(***************************************************************************)
Next ==
    \/ \E r \in Reqs : Upload(r)
    \/ \E r \in Reqs : HandlerStart(r)
    \/ \E r \in Reqs : InferenceDone(r)
    \/ \E r \in Reqs : InferenceFail(r)
    \/ \E r \in Reqs : Query(r)
    \/ GetAnalyses
    \/ PayClick
    \/ PayHash
    \/ PayPrice
    \/ PaySend

Spec == Init /\ [][Next]_vars

\* handlePayment alone
NextPay ==
    \/ PayClick
    \/ PayHash
    \/ PayPrice
    \/ PaySend

SpecPay == Init /\ [][NextPay]_vars

(***************************************************************************)
(* POST /api/analyze alone, started from the states k successful payments  *)
(* leave behind (k = 0..MaxPay): payment n is made by PayerOf(n) for        *)
(* ImageOf(n) and its record is pending                                    *)
(***************************************************************************)
PayerOf(n) ==
    IF n % 2 = 1 THEN "0xAb5801a7D398351b8bE11C439e05C5B3259aeC9B"
    ELSE "0x00000000219ab540356cBB839Cbe05303d7705Fa"
ImageOf(n) == IF n % 2 = 1 THEN "imageX" ELSE "imageY"

RECURSIVE PaidStore(_)
PaidStore(k) ==
    IF k = 0 THEN <<>>
    ELSE CreatePending(PaidStore(k - 1), IdString(k), PayerOf(k),
                       generateImageHash(ImageOf(k)), k)

PaidPay(k) ==
    IF k = 0 THEN IdlePay
    ELSE [IdlePay EXCEPT !.transactionHash = TxHash(k), !.calls = k,
                         !.priceReads = 1, !.txSent = 1]

InitAnalyze ==
    \E k \in 0..MaxPay :
        /\ store = PaidStore(k)
        /\ clock = k + 1
        /\ req = [r \in Reqs |-> NewReq]
        /\ tmp = [r \in Reqs |-> FALSE]
        /\ pay = PaidPay(k)
        /\ ledger = k + 1
        /\ delivered = {[id |-> IdString(n), owner |-> PayerOf(n), image |-> ImageOf(n)] :
                           n \in 1..k}
        /\ history = NoHistory
        /\ rawText = <<>>
        /\ normalized = [done |-> FALSE, result |-> NoResult]

NextAnalyze ==
    \/ \E r \in Reqs : Upload(r)
    \/ \E r \in Reqs : HandlerStart(r)
    \/ \E r \in Reqs : InferenceDone(r)
    \/ \E r \in Reqs : InferenceFail(r)
    \/ \E r \in Reqs : Query(r)

SpecAnalyze == InitAnalyze /\ [][NextAnalyze]_vars

(***************************************************************************)
(* The normalizer alone: an AI text is drawn, ParseAIResponse is applied   *)
(***************************************************************************)
\* length of the prose drawn before and after an object
MaxProse == 2

RECURSIVE ProseOfLen(_)
ProseOfLen(n) ==
    IF n = 0 THEN {<<>>}
    ELSE {p \o <<c>> : p \in ProseOfLen(n - 1), c \in {"w", "{", "}"}}

Prose == UNION {ProseOfLen(n) : n \in 0..MaxProse}

LongProse == {Pad(FallbackLen - 1), Pad(FallbackLen), Pad(FallbackLen + 1)}

Objects ==
    {<<>>,
     TextValid,
     TextEmptyObject,
     TextOutOfRange,
     TextOverflow,
     <<"{", mDiag, ",", mAdvice, ",", mSevHigh, "}">>,
     <<"{", mDiagNum, ",", mAdvice, ",", mSevLow, ",", mConf, "}">>,
     <<"{", mDiag, ",", mAdvice, ",", mSevHigh, ",", mConfStr, "}">>,
     <<"{", mDiag, ",", mAdvice, ",", mSevLow, ",", mSevHigh, ",", mConfRound, "}">>,
     <<"{", mDiag, mAdvice, ",", mSevHigh, ",", mConf, "}">>,
     <<"{", mDiag, ",", mAdvice, ",", mSevHigh, ",", mConf, ",", "}">>,
     <<"{", "w", "}">>}

NormTexts == {p \o o \o q : p \in Prose \cup LongProse, o \in Objects, q \in Prose}

InitNorm ==
    /\ store = <<>>
    /\ clock = 1
    /\ req = [r \in Reqs |-> NewReq]
    /\ tmp = [r \in Reqs |-> FALSE]
    /\ pay = IdlePay
    /\ ledger = 1
    /\ delivered = {}
    /\ history = NoHistory
    /\ rawText \in NormTexts
    /\ normalized = [done |-> FALSE, result |-> NoResult]

Normalize ==
    /\ ~normalized.done
    /\ normalized' = [done |-> TRUE, result |-> ParseAIResponse(rawText)]
    /\ UNCHANGED <<rawText, serverVars, payVars>>

NextNorm == Normalize

SpecNorm == InitNorm /\ [][NextNorm]_vars

(***************************************************************************)
(* Properties                                                              *)
(***************************************************************************)
\* the strict result schema: diagnosis and advice strings, severity one of
\* low, medium, high, confidence a number in [0,1]
WellTyped(result) ==
    /\ result.diagnosis.t = "str"
    /\ result.advice.t = "str"
    /\ result.severity.t = "str"
    /\ result.severity.s \in {LOW, MEDIUM, HIGH}
    /\ result.confidence.t = "num"
    /\ result.confidence.n >= 0
    /\ result.confidence.n <= 1000

\* the fallback result as the design states it
ExpectedFallback(text) ==
    [diagnosis |-> Str([i \in 1..(IF Len(text) < 200 THEN Len(text) ELSE 200) |-> text[i]]
                       \o <<".", ".", ".">>),
     advice |-> Str(<<"Please consult with a local agricultural expert for detailed treatment recommendations.">>),
     severity |-> Str(<<"m", "e", "d", "i", "u", "m">>),
     confidence |-> Num(750)]

Pending(row) ==
    /\ row.completed_at = 0
    /\ row.diagnosis = Null /\ row.advice = Null
    /\ row.severity = Null /\ row.confidence = Null

Completed(row) ==
    /\ row.completed_at # 0
    /\ row.diagnosis # Null /\ row.advice # Null
    /\ row.severity # Null /\ row.confidence # Null

\* C1: a request that stored a temporary file and ended in failure (any
\* response but the 200) has released the file, unless the file system
\* itself refused the deletion the catch block attempted
C1_TempFileReleasedOnFailure ==
    \A r \in Reqs :
        (req[r].pc = "done" /\ req[r].hasFile /\ req[r].status # 200
            /\ ~req[r].cleanupFailed)
        => ~tmp[r]

\* C2: a request whose UPDATE matched no record (the identifier is unknown
\* to the store) is answered with an error, not with a result
C2_UnknownIdFails ==
    \A r \in Reqs :
        (req[r].pc = "done" /\ req[r].rows = 0) => req[r].status # 200

\* C3: a completed record is never written again: completed_at and the
\* result fields are set once, a second completion does not overwrite them
C3_CompletedOnce ==
    [][\A id \in DOMAIN store :
          store[id].completed_at # 0 => store'[id] = store[id]]_vars

\* C4: every response of the analyze operation is an explicit error or a
\* well-typed result
C4_ResponseWellTyped ==
    \A r \in Reqs :
        req[r].pc = "done" =>
            \/ req[r].status >= 400 /\ req[r].error # ""
            \/ req[r].status = 200 /\ WellTyped(req[r].result)

\* C5: every record of the store is pending (completed_at null, no result
\* field set) or completed (completed_at and all four result fields set)
C5_PendingOrCompleted ==
    \A id \in DOMAIN store : Pending(store[id]) \/ Completed(store[id])

\* C6: an object that parses but has a missing, ill-typed or out-of-range
\* field is rejected: the output is the fallback result
C6_InvalidObjectRejected ==
    LET m == JsonMatch(rawText)
    IN  (normalized.done /\ m # <<>> /\ JsonSyntaxOk(m) /\ ~WellTyped(JsonParse(m)))
        => normalized.result = ExpectedFallback(rawText)

\* C7: a valid result object with prose before it (holding no opening brace,
\* so that the object is the first balanced brace-delimited one) and any
\* prose after it, braces included, is returned as that structured object
C7_EmbeddedObjectReturned ==
    (/\ normalized.done
     /\ \E p \in Prose \cup LongProse, q \in Prose :
           /\ \A i \in 1..Len(p) : p[i] # "{"
           /\ rawText = p \o TextValid \o q)
    => normalized.result =
          [diagnosis |-> Str(<<"leaf rust">>), advice |-> Str(<<"apply fungicide">>),
           severity |-> Str(HIGH), confidence |-> Num(900)]

\* C8: when the text has no brace-delimited substring, or that substring
\* does not parse, the result is the first 200 characters and the ellipsis,
\* the referral message, medium and the fallback constant
NoBraceSubstring(text) ==
    ~\E i, j \in 1..Len(text) : i < j /\ text[i] = "{" /\ text[j] = "}"

C8_Fallback ==
    (normalized.done
        /\ (NoBraceSubstring(rawText) \/ ~JsonSyntaxOk(JsonMatch(rawText))))
    => normalized.result = ExpectedFallback(rawText)

\* a text longer than 200 characters whose brace-delimited substring does
\* not parse has been normalized
C8_Witness ==
    /\ normalized.done
    /\ Len(rawText) > 200
    /\ ~NoBraceSubstring(rawText)
    /\ ~JsonSyntaxOk(JsonMatch(rawText))
    /\ Len(normalized.result.diagnosis.s) = 203

\* C9: once a payment delivered identifier id for owner o and image X, the
\* store holds the record (id, o, hash(X)); once that record's completion
\* succeeded, the owner's list holds exactly one record for id, and it is
\* completed, with completed_at set and image_hash = hash(X)
C9_EndToEnd ==
    \A d \in delivered :
        /\ d.id \in DOMAIN store
        /\ store[d.id].farmer_address = d.owner
        /\ store[d.id].image_hash = generateImageHash(d.image)
        /\ store[d.id].completed_at # 0 =>
              LET list == ListByOwner(d.owner)
                  at == {k \in 1..Len(list) : list[k].analysis_id = d.id}
              IN  /\ Cardinality(at) = 1
                  /\ \A k \in at :
                        /\ Completed(list[k])
                        /\ list[k].image_hash = generateImageHash(d.image)

\* C10: an invocation of handlePayment that ends in its catch block ends
\* with an error set and without a call of onPaymentSuccess, and the error
\* of the event-not-found case is none of the errors of the other modes
C10_FailuresSurfaced ==
    [][(pay.isProcessing /\ ~pay'.isProcessing /\ pay'.thrown # NoThrow)
        => /\ pay'.error # NoError
           /\ delivered' = delivered
           /\ pay'.thrown = EventNotFound =>
                 pay'.error \notin {ErrorMessage(m) : m \in SendFailures}]_vars

\* a transaction was mined without the event and the invocation has ended
C10_Witness ==
    /\ pay.pc = "idle"
    /\ ~pay.isProcessing
    /\ pay.thrown = EventNotFound
    /\ pay.error = EventNotFound
    /\ pay.transactionHash # <<>>

\* C11: an invocation whose account is no valid address ends at once with
\* the invalid-address error: it never goes on to the hash, the price or the
\* transaction, and it has issued no analysisPrice read and no
\* requestAnalysis transaction
C11_InvalidAddressStopsEarly ==
    /\ [](pay.pc \in {"hash", "price", "send"} =>
            pay.account \in {"0xAb5801a7D398351b8bE11C439e05C5B3259aeC9B",
                             "0x00000000219ab540356cBB839Cbe05303d7705Fa"})
    /\ [][(pay.pc = "idle" /\ pay'.calls = pay.calls + 1 /\ pay'.pc = "idle")
          => /\ pay'.thrown = <<"Invalid Ethereum address">>
             /\ pay'.error = <<"Please connect a valid Ethereum wallet">>
             /\ ~pay'.isProcessing
             /\ pay'.priceReads = 0
             /\ pay'.txSent = 0
             /\ ledger' = ledger
             /\ delivered' = delivered]_vars

\* an invocation with an address that is not valid has ended, after an
\* earlier invocation that did read the price and send a transaction
C11_Witness ==
    /\ pay.pc = "idle"
    /\ pay.calls = 2
    /\ ledger = 2
    /\ pay.thrown = InvalidAddress
    /\ pay.priceReads = 0
    /\ pay.txSent = 0

\* the step in which generateContent rejects for request r, whose analysisId
\* names a pending record
InferenceFailsOnPending(r) ==
    /\ req[r].pc = "inference"
    /\ req'[r].pc = "done"
    /\ req'[r].logged = "generateContent"
    /\ req[r].analysisId \in DOMAIN store
    /\ Pending(store[req[r].analysisId])

C13_ResponseAgreesWithStore ==
    [][\A r \in Reqs :
          (req[r].pc # "done" /\ req'[r].pc = "done")
          => /\ store' # store
                => /\ req'[r].status = 200
                   /\ req'[r].result = req[r].result
             /\ req'[r].status = 500 => store' = store]_vars

====
